---- MODULE Spec2Model ----
(***************************************************************************)
(* A model of the PersonaPlex proxy (personaplex_proxy.py) and of the      *)
(* SmartRouter it uses (smart_router.py).                                  *)
(*                                                                         *)
(* One asyncio event loop runs every coroutine, so each action is the code *)
(* a coroutine executes between two suspension points.  Text is a sequence *)
(* of one-character strings; scores and confidences are in hundredths;     *)
(* time.time() is in tenths of a second.                                   *)
(***************************************************************************)
EXTENDS Integers, Sequences, FiniteSets, TLC

(***************************************************************************)
(* Python str operations used by the proxy and the router.                 *)
(***************************************************************************)
NUL == "NUL"   \* the character '\x00'

UpperCase == <<"A","B","C","D","E","F","G","H","I","J","K","L","M",
               "N","O","P","Q","R","S","T","U","V","W","X","Y","Z">>

LowerCase == <<"a","b","c","d","e","f","g","h","i","j","k","l","m",
               "n","o","p","q","r","s","t","u","v","w","x","y","z">>

Digits == {"0","1","2","3","4","5","6","7","8","9"}

Range(f) == {f[i] : i \in DOMAIN f}

SetMax(S) == CHOOSE m \in S : \A n \in S : n <= m

SetMin(S) == CHOOSE m \in S : \A n \in S : m <= n

Min(a, b) == IF a <= b THEN a ELSE b

\* str.isspace for the characters of the model
IsSpace(c) == c \in {" ", "\n", "\t"}

\* a character the regex class \w (and so \b) counts as part of a word
WordChars == Range(UpperCase) \cup Range(LowerCase) \cup Digits \cup {"_"}

IsWordChar(c) == c \in WordChars

\* the lower-case letter of each upper-case letter
ToLower == [c \in Range(UpperCase) |->
              LowerCase[CHOOSE i \in DOMAIN UpperCase : UpperCase[i] = c]]

LowerChar(c) == IF c \in DOMAIN ToLower THEN ToLower[c] ELSE c

\* str.lower()
lower(s) == [i \in DOMAIN s |-> LowerChar(s[i])]

\* str.rstrip()
rstrip(s) ==
  LET keep == {i \in DOMAIN s : ~IsSpace(s[i])}
  IN  IF keep = {} THEN <<>> ELSE SubSeq(s, 1, SetMax(keep))

\* str.strip()
strip(s) ==
  LET keep == {i \in DOMAIN s : ~IsSpace(s[i])}
  IN  IF keep = {} THEN <<>> ELSE SubSeq(s, SetMin(keep), SetMax(keep))

\* str.endswith(tuple of one-character suffixes)
endswith(s, suffixes) == Len(s) > 0 /\ s[Len(s)] \in suffixes

\* len(str.split()): the number of maximal runs of non-space characters
WordCount(s) ==
  Cardinality({i \in DOMAIN s : ~IsSpace(s[i]) /\ (i = 1 \/ IsSpace(s[i - 1]))})

\* the literal w occurs in s at position i
MatchAt(s, i, w) ==
  /\ i >= 1
  /\ i + Len(w) - 1 <= Len(s)
  /\ \A k \in DOMAIN w : s[i + k - 1] = w[k]

\* Python's `w in s`
Contains(s, w) == \E i \in 1..(Len(s) + 1) : MatchAt(s, i, w)

\* regex \b between s[i-1] and s[i]
WordBoundary(s, i) ==
  LET before == i - 1 \in DOMAIN s /\ IsWordChar(s[i - 1])
      after  == i \in DOMAIN s /\ IsWordChar(s[i])
  IN  before # after

\* regex .* (no newline) covers s[i..j-1]
DotRun(s, i, j) == \A k \in i..(j - 1) : k \in DOMAIN s /\ s[k] # "\n"

\* regex \s* covers s[i..j-1]
SpaceRun(s, i, j) == \A k \in i..(j - 1) : k \in DOMAIN s /\ IsSpace(s[k])

\* regex \d+ covers s[i..j-1]
DigitRun(s, i, j) == j > i /\ \A k \in i..(j - 1) : k \in DOMAIN s /\ s[k] \in Digits

(***************************************************************************)
(* smart_router.py: the pattern tables.  A pattern is a record: kind says  *)
(* which regular expression it is,                                         *)
(*   start_b    ^(alts)\b            start       ^(alts)                   *)
(*   word       \b(alts)\b           word_q      \b(alts)\b.*\?            *)
(*   word_min   \b(alts)\b.{min,}    word_then   \b(alts)\b.*\b(then)\b    *)
(*   math       \b\d+\s*[\+\-\*\/\^]\s*\d+                                 *)
(***************************************************************************)
SIMPLE_PATTERNS ==
  << [kind |-> "start_b", alts |->
      { <<"h","i">>, <<"h","e","l","l","o">>, <<"h","e","y">>,
        <<"g","o","o","d"," ","m","o","r","n","i","n","g">>,
        <<"g","o","o","d"," ","a","f","t","e","r","n","o","o","n">>,
        <<"g","o","o","d"," ","e","v","e","n","i","n","g">>, <<"h","o","w","d","y">> }],
     [kind |-> "start", alts |->
      { <<"h","o","w"," ","a","r","e"," ","y","o","u">> }],
     [kind |-> "start", alts |->
      { <<"w","h","a","t","'","s"," ","u","p">>, <<"w","h","a","t","s"," ","u","p">> }],
     [kind |-> "start_b", alts |->
      { <<"t","h","a","n","k","s">>, <<"t","h","a","n","k"," ","y","o","u">>,
        <<"b","y","e">>, <<"g","o","o","d","b","y","e">>, <<"s","e","e"," ","y","o","u">>,
        <<"l","a","t","e","r">> }],
     [kind |-> "start", alts |->
      { <<"w","h","a","t"," ","t","i","m","e"," ","i","s"," ","i","t">> }],
     [kind |-> "start", alts |->
      { <<"w","h","a","t","'","s"," ","t","h","e"," ","t","i","m","e">>,
        <<"w","h","a","t","'","s"," ","t","h","e"," ","d","a","t","e">>,
        <<"w","h","a","t","'","s"," ","t","h","e"," ","w","e","a","t","h","e","r">>,
        <<"w","h","a","t","s"," ","t","h","e"," ","t","i","m","e">>,
        <<"w","h","a","t","s"," ","t","h","e"," ","d","a","t","e">>,
        <<"w","h","a","t","s"," ","t","h","e"," ","w","e","a","t","h","e","r">> }],
     [kind |-> "start_b", alts |->
      { <<"y","e","s">>, <<"n","o">>, <<"y","e","a","h">>, <<"n","o","p","e">>,
        <<"o","k","a","y">>, <<"o","k">>, <<"s","u","r","e">>,
        <<"a","l","r","i","g","h","t">> }],
     [kind |-> "start_b", alts |->
      { <<"u","h","-","h","u","h">>, <<"u","h","h","u","h">>, <<"h","m","m">>,
        <<"i"," ","s","e","e">>, <<"g","o","t"," ","i","t">>,
        <<"m","a","k","e","s"," ","s","e","n","s","e">>, <<"r","i","g","h","t">>,
        <<"e","x","a","c","t","l","y">> }],
     [kind |-> "start_b", alts |->
      { <<"s","t","o","p">>, <<"p","a","u","s","e">>, <<"c","a","n","c","e","l">>,
        <<"n","e","v","e","r","m","i","n","d">>,
        <<"n","e","v","e","r"," ","m","i","n","d">> }],
     [kind |-> "start_b", alts |->
      { <<"r","e","p","e","a","t"," ","t","h","a","t">>,
        <<"s","a","y"," ","t","h","a","t"," ","a","g","a","i","n">>,
        <<"w","h","a","t"," ","d","i","d"," ","y","o","u"," ","s","a","y">> }] >>

COMPLEX_PATTERNS ==
  << [kind |-> "word_q", min |-> 0, then |-> {}, alts |->
      { <<"e","x","p","l","a","i","n">>, <<"w","h","y">>,
        <<"h","o","w"," ","d","o","e","s">>,
        <<"w","h","a","t"," ","c","a","u","s","e","s">>, <<"a","n","a","l","y","z","e">>,
        <<"c","o","m","p","a","r","e">> }],
     [kind |-> "word", min |-> 0, then |-> {}, alts |->
      { <<"d","i","f","f","e","r","e","n","c","e"," ","b","e","t","w","e","e","n">>,
        <<"p","r","o","s"," ","a","n","d"," ","c","o","n","s">>,
        <<"a","d","v","a","n","t","a","g","e","s">>,
        <<"d","i","s","a","d","v","a","n","t","a","g","e","s">> }],
     [kind |-> "word", min |-> 0, then |-> {}, alts |->
      { <<"c","o","d","e">>, <<"p","r","o","g","r","a","m">>,
        <<"f","u","n","c","t","i","o","n">>, <<"c","l","a","s","s">>, <<"b","u","g">>,
        <<"e","r","r","o","r">>, <<"d","e","b","u","g">>, <<"f","i","x">> }],
     [kind |-> "word", min |-> 0, then |-> {}, alts |->
      { <<"p","y","t","h","o","n">>, <<"j","a","v","a","s","c","r","i","p","t">>,
        <<"s","w","i","f","t">>, <<"r","u","s","t">>, <<"j","a","v","a">>, <<"s","q","l">>,
        <<"a","p","i">> }],
     [kind |-> "word", min |-> 0, then |-> {}, alts |->
      { <<"a","l","g","o","r","i","t","h","m">>,
        <<"d","a","t","a"," ","s","t","r","u","c","t","u","r","e">>,
        <<"c","o","m","p","l","e","x","i","t","y">>, <<"o","p","t","i","m","i","z","e">> }],
     [kind |-> "word", min |-> 0, then |-> {}, alts |->
      { <<"c","a","l","c","u","l","a","t","e">>, <<"c","o","m","p","u","t","e">>,
        <<"s","o","l","v","e">>, <<"e","q","u","a","t","i","o","n">>,
        <<"f","o","r","m","u","l","a">>, <<"m","a","t","h">> }],
     [kind |-> "math", min |-> 0, then |-> {}, alts |-> {}],
     [kind |-> "word", min |-> 0, then |-> {}, alts |->
      { <<"r","e","s","e","a","r","c","h">>, <<"s","t","u","d","y">>,
        <<"p","a","p","e","r">>, <<"a","r","t","i","c","l","e">>,
        <<"s","o","u","r","c","e">>, <<"r","e","f","e","r","e","n","c","e">> }],
     [kind |-> "word", min |-> 0, then |-> {}, alts |->
      { <<"h","i","s","t","o","r","y"," ","o","f">>,
        <<"o","r","i","g","i","n"," ","o","f">>, <<"w","h","e","n"," ","w","a","s">>,
        <<"w","h","o"," ","i","n","v","e","n","t","e","d">> }],
     [kind |-> "word_min", min |-> 10, then |-> {}, alts |->
      { <<"d","e","f","i","n","i","t","i","o","n">>,
        <<"m","e","a","n","i","n","g"," ","o","f">>,
        <<"w","h","a","t"," ","i","s"," ","a">> }],
     [kind |-> "word", min |-> 0, then |-> {}, alts |->
      { <<"s","t","e","p"," ","b","y"," ","s","t","e","p">>,
        <<"w","a","l","k"," ","m","e"," ","t","h","r","o","u","g","h">>,
        <<"g","u","i","d","e">>, <<"t","u","t","o","r","i","a","l">> }],
     [kind |-> "word_then", min |-> 0, then |-> { <<"a","n","d">>, <<"t","h","e","n">> }, alts |->
      { <<"f","i","r","s","t">>, <<"t","h","e","n">>,
        <<"a","f","t","e","r"," ","t","h","a","t">>, <<"f","i","n","a","l","l","y">> }],
     [kind |-> "word_min", min |-> 15, then |-> {}, alts |->
      { <<"w","r","i","t","e">>, <<"c","r","e","a","t","e">>,
        <<"g","e","n","e","r","a","t","e">>, <<"c","o","m","p","o","s","e">>,
        <<"d","r","a","f","t">> }],
     [kind |-> "word", min |-> 0, then |-> {}, alts |->
      { <<"s","t","o","r","y">>, <<"p","o","e","m">>, <<"e","s","s","a","y">>,
        <<"e","m","a","i","l">>, <<"l","e","t","t","e","r">>, <<"r","e","p","o","r","t">> }],
     [kind |-> "word", min |-> 0, then |-> {}, alts |->
      { <<"s","u","m","m","a","r","i","z","e">>, <<"s","u","m","m","a","r","y">>,
        <<"k","e","y"," ","p","o","i","n","t","s">>,
        <<"m","a","i","n"," ","i","d","e","a","s">> }],
     [kind |-> "word", min |-> 0, then |-> {}, alts |->
      { <<"r","e","v","i","e","w">>, <<"c","r","i","t","i","q","u","e">>,
        <<"e","v","a","l","u","a","t","e">>, <<"a","s","s","e","s","s">> }] >>

COMPLEXITY_KEYWORDS ==
  << [keyword |-> <<"e","x","p","l","a","i","n">>, weight |-> 30],
     [keyword |-> <<"w","h","y">>, weight |-> 20],
     [keyword |-> <<"h","o","w">>, weight |-> 15],
     [keyword |-> <<"a","n","a","l","y","z","e">>, weight |-> 40],
     [keyword |-> <<"c","o","m","p","a","r","e">>, weight |-> 30],
     [keyword |-> <<"c","o","d","e">>, weight |-> 50],
     [keyword |-> <<"p","r","o","g","r","a","m">>, weight |-> 40],
     [keyword |-> <<"c","a","l","c","u","l","a","t","e">>, weight |-> 30],
     [keyword |-> <<"w","r","i","t","e">>, weight |-> 25],
     [keyword |-> <<"c","r","e","a","t","e">>, weight |-> 20],
     [keyword |-> <<"r","e","s","e","a","r","c","h">>, weight |-> 30],
     [keyword |-> <<"s","u","m","m","a","r","i","z","e">>, weight |-> 35],
     [keyword |-> <<"s","t","e","p"," ","b","y"," ","s","t","e","p">>, weight |-> 40],
     [keyword |-> <<"i","n"," ","d","e","t","a","i","l">>, weight |-> 30],
     [keyword |-> <<"t","h","o","r","o","u","g","h","l","y">>, weight |-> 30] >>

MathOperators == {"+", "-", "*", "/", "^"}

\* the positions right after an occurrence \b(alts)\b that starts at i
WordEnds(s, i, alts) ==
  {i + Len(w) : w \in {v \in alts : /\ MatchAt(s, i, v)
                                    /\ WordBoundary(s, i)
                                    /\ WordBoundary(s, i + Len(v))}}

\* re.compile(p, re.IGNORECASE).search(s)
Search(p, s) ==
  CASE p.kind = "start_b" ->
         \E w \in p.alts : MatchAt(s, 1, w) /\ WordBoundary(s, Len(w) + 1)
    [] p.kind = "start" ->
         \E w \in p.alts : MatchAt(s, 1, w)
    [] p.kind = "word" ->
         \E i \in DOMAIN s : WordEnds(s, i, p.alts) # {}
    [] p.kind = "word_q" ->
         \E i \in DOMAIN s : \E e \in WordEnds(s, i, p.alts) :
           \E j \in e..Len(s) : DotRun(s, e, j) /\ s[j] = "?"
    [] p.kind = "word_min" ->
         \E i \in DOMAIN s : \E e \in WordEnds(s, i, p.alts) :
           e + p.min - 1 <= Len(s) /\ DotRun(s, e, e + p.min)
    [] p.kind = "word_then" ->
         \E i \in DOMAIN s : \E e \in WordEnds(s, i, p.alts) :
           \E j \in e..Len(s) : DotRun(s, e, j) /\ WordEnds(s, j, p.then) # {}
    [] p.kind = "math" ->
         \E i \in DOMAIN s :
           /\ WordBoundary(s, i)
           /\ \E j \in DOMAIN s :
                /\ DigitRun(s, i, j)
                /\ \E k \in DOMAIN s :
                     /\ j <= k /\ SpaceRun(s, j, k)
                     /\ s[k] \in MathOperators
                     /\ \E m \in DOMAIN s :
                          /\ k < m /\ SpaceRun(s, k + 1, m)
                          /\ s[m] \in Digits

\* QueryComplexity
SIMPLE == "simple"

COMPLEX == "complex"

UNCERTAIN == "uncertain"

RouterDecision(complexity, confidence, reason, suggested_model) ==
  [complexity |-> complexity, confidence |-> confidence,
   reason |-> reason, suggested_model |-> suggested_model]

\* the entries of COMPLEXITY_KEYWORDS found in the query, in table order
MatchedKeywords(query_lower) ==
  SelectSeq(COMPLEXITY_KEYWORDS, LAMBDA e : Contains(query_lower, e.keyword))

RECURSIVE SumWeights(_)
SumWeights(entries) ==
  IF entries = <<>> THEN 0 ELSE Head(entries).weight + SumWeights(Tail(entries))

\* the score of steps "keywords", "query length" and "question"
ComplexityScore(query) ==
  LET query_lower == strip(lower(query))
      word_count == WordCount(query_lower)
  IN  SumWeights(MatchedKeywords(query_lower))
        + (IF word_count > 20 THEN 20 ELSE IF word_count > 10 THEN 10 ELSE 0)
        + (IF endswith(strip(query), {"?"}) THEN 10 ELSE 0)

\* a classifier that tries the complex patterns before the simple ones
classify_fast_ComplexFirst(query) ==
  LET query_lower == strip(lower(query))
      complexity_score == ComplexityScore(query)
      matched_keywords == [i \in DOMAIN MatchedKeywords(query_lower) |->
                             MatchedKeywords(query_lower)[i].keyword]
  IN  IF Len(query_lower) < 3
        THEN RouterDecision(SIMPLE, 90, <<"Very short query", 0, <<>>>>, "moshi")
      ELSE IF \E n \in DOMAIN COMPLEX_PATTERNS : Search(COMPLEX_PATTERNS[n], query_lower)
        THEN RouterDecision(COMPLEX, 80, <<"Matched complex pattern", 0, <<>>>>, "ollama")
      ELSE IF \E n \in DOMAIN SIMPLE_PATTERNS : Search(SIMPLE_PATTERNS[n], query_lower)
        THEN RouterDecision(SIMPLE, 85, <<"Matched simple pattern", 0, <<>>>>, "moshi")
      ELSE IF complexity_score >= 50
        THEN RouterDecision(COMPLEX, Min(90, 50 + complexity_score),
                            <<"High complexity score", complexity_score, matched_keywords>>,
                            "ollama")
      ELSE IF complexity_score >= 25
        THEN RouterDecision(UNCERTAIN, 50,
                            <<"Medium complexity score", complexity_score, <<>>>>, "moshi")
      ELSE RouterDecision(SIMPLE, 70,
                          <<"Low complexity score", complexity_score, <<>>>>, "moshi")

\* a classifier that matches the patterns against the text as it was typed
classify_fast_CaseSensitive(query) ==
  LET query_lower == strip(query)
      complexity_score == ComplexityScore(query)
      matched_keywords == [i \in DOMAIN MatchedKeywords(query_lower) |->
                             MatchedKeywords(query_lower)[i].keyword]
  IN  IF Len(query_lower) < 3
        THEN RouterDecision(SIMPLE, 90, <<"Very short query", 0, <<>>>>, "moshi")
      ELSE IF \E n \in DOMAIN SIMPLE_PATTERNS : Search(SIMPLE_PATTERNS[n], query_lower)
        THEN RouterDecision(SIMPLE, 85, <<"Matched simple pattern", 0, <<>>>>, "moshi")
      ELSE IF \E n \in DOMAIN COMPLEX_PATTERNS : Search(COMPLEX_PATTERNS[n], query_lower)
        THEN RouterDecision(COMPLEX, 80, <<"Matched complex pattern", 0, <<>>>>, "ollama")
      ELSE IF complexity_score >= 50
        THEN RouterDecision(COMPLEX, Min(90, 50 + complexity_score),
                            <<"High complexity score", complexity_score, matched_keywords>>,
                            "ollama")
      ELSE IF complexity_score >= 25
        THEN RouterDecision(UNCERTAIN, 50,
                            <<"Medium complexity score", complexity_score, <<>>>>, "moshi")
      ELSE RouterDecision(SIMPLE, 70,
                          <<"Low complexity score", complexity_score, <<>>>>, "moshi")

\* SmartRouter.classify_fast
classify_fast(query) ==
  LET query_lower == strip(lower(query))
      complexity_score == ComplexityScore(query)
      matched_keywords == [i \in DOMAIN MatchedKeywords(query_lower) |->
                             MatchedKeywords(query_lower)[i].keyword]
  IN  IF Len(query_lower) < 3
        THEN RouterDecision(SIMPLE, 90, <<"Very short query", 0, <<>>>>, "moshi")
      ELSE IF \E n \in DOMAIN SIMPLE_PATTERNS : Search(SIMPLE_PATTERNS[n], query_lower)
        THEN RouterDecision(SIMPLE, 85, <<"Matched simple pattern", 0, <<>>>>, "moshi")
      ELSE IF \E n \in DOMAIN COMPLEX_PATTERNS : Search(COMPLEX_PATTERNS[n], query_lower)
        THEN RouterDecision(COMPLEX, 80, <<"Matched complex pattern", 0, <<>>>>, "ollama")
      ELSE IF complexity_score >= 50
        THEN RouterDecision(COMPLEX, Min(90, 50 + complexity_score),
                            <<"High complexity score", complexity_score, matched_keywords>>,
                            "ollama")
      ELSE IF complexity_score >= 25
        THEN RouterDecision(UNCERTAIN, 50,
                            <<"Medium complexity score", complexity_score, <<>>>>, "moshi")
      ELSE RouterDecision(SIMPLE, 70,
                          <<"Low complexity score", complexity_score, <<>>>>, "moshi")

(***************************************************************************)
(* personaplex_proxy.py: configuration.                                    *)
(***************************************************************************)
MOSHI_SAMPLE_RATE == 24000

APP_SAMPLE_RATE == 16000

MOSHI_FRAME_SIZE == 1920

VAD_THRESHOLD == 2           \* 0.02, in hundredths

VAD_SILENCE_DURATION == 8    \* 0.8 s, in tenths of a second

(***************************************************************************)
(* Bounds of the model and the inputs the environment draws from.          *)
(***************************************************************************)
Sessions == {1, 2}      \* the client connections the server accepts

Served == {1}           \* the sessions that get past the probe within a run

MaxInputs == 2          \* messages and stream lines delivered, all sessions together

StartTime == 10         \* time.time() when the server starts

MaxTicks == 9           \* tenths of a second the clock advances in a timed run

\* text payloads of the primary backend, after payload.decode()
TokHi == <<"H","i","!">>

TokFix == <<"F","i","x"," ","i","t",".">>

TokCode == <<" ","c","o","d","e">>

TokDot == <<".", " ">>

Tokens == {TokHi, TokFix, TokCode, TokDot, <<NUL>>, <<>>}

TokHow == <<"H","o","w","?">>

TokNl == <<"\n">>

\* the text payloads of the relay specification
RelayTokens == Tokens \cup {TokHow, TokNl}

\* "response" values of the secondary backend's stream lines
OllamaTokens == {<<"4">>, <<"2">>}

\* root-mean-square amplitudes of a client chunk, in hundredths
RmsLevels == {2, 3}

\* client chunk sizes, in samples at APP_SAMPLE_RATE
ChunkSamples == {640, 1280}

\* what session.ws_connect can end with: a connection, or an exception
ConnectOutcomes ==
  {"connected", "ClientConnectorError", "WSServerHandshakeError", "TimeoutError"}

\* `except aiohttp.ClientError`: asyncio.TimeoutError, which the total timeout
\* of the client session raises, is not a ClientError
IsClientError(e) == e \in {"ClientConnectorError", "WSServerHandshakeError"}

VARIABLES
  router,        \* the SmartRouter of the one MoshiMLXProxy: [ollama_available]
  handler,       \* handle_websocket of each session: [pc, ollama_available, connect]
  state,         \* the ConversationState of each session
  app_to_moshi,  \* the task _forward_app_to_moshi of each session and its locals
  moshi_to_app,  \* the task _forward_moshi_to_app of each session and its locals
  queries,       \* the _handle_ollama_query tasks each session created, in order
  ws_app,        \* the client socket: [closed, sent], sent = what the client was sent
  ws_moshi,      \* the primary backend socket: [closed, dropped, frames]
  units,         \* history: the sentences each session completed
  now,           \* time.time()
  inputs,        \* the number of messages and lines delivered so far
  orchestrator,  \* jarvis_orchestrator.py: [current_mode, responses]
  decisions      \* history: the calls of the SmartRouter's classification methods

vars == <<router, handler, state, app_to_moshi, moshi_to_app, queries,
          ws_app, ws_moshi, units, now, inputs, orchestrator, decisions>>

\* the state of the programs that run beside the proxy
standalone == <<orchestrator, decisions>>

\* a message to the client: a JSON event of type state, response or error, or
\* an audio frame (type "audio"); `by` is the coroutine that sent it
Event(by, type, st, text, partial, source) ==
  [by |-> by, type |-> type, state |-> st, text |-> text,
   partial |-> partial, source |-> source, ollama_available |-> FALSE,
   at |-> now]

StateEvent(by, st, source) == Event(by, "state", st, <<>>, FALSE, source)

ResponseEvent(by, text, partial, source) == Event(by, "response", "", text, partial, source)

ErrorEvent(by) == Event(by, "error", "", <<>>, FALSE, "")

AudioFrame(by) == Event(by, "audio", "", <<>>, FALSE, "")

\* {"type": "state", "state": "connected", "ollama_available": ...}
ConnectedEvent(ollama_available) ==
  [StateEvent("handler", "connected", "") EXCEPT !.ollama_available = ollama_available]

\* ConversationState()
ConversationState ==
  [user_speaking |-> FALSE, assistant_speaking |-> FALSE,
   last_user_audio_time |-> 0, last_assistant_audio_time |-> 0,
   pending_user_text |-> <<>>, pending_assistant_text |-> <<>>,
   current_query_routed |-> FALSE]

TaskEnded == {"done", "raised", "cancelled"}

ProxyInit ==
  /\ router = [ollama_available |-> FALSE]
  /\ handler = [s \in Sessions |->
                  [pc |-> "accept", ollama_available |-> FALSE, connect |-> "none"]]
  /\ state = [s \in Sessions |-> ConversationState]
  /\ app_to_moshi = [s \in Sessions |->
                       [status |-> "none", audio_buffer |-> <<>>,
                        received |-> 0, encoder |-> <<>>,
                        last_vad_state |-> FALSE, last_state_update |-> 0]]
  /\ moshi_to_app = [s \in Sessions |->
                       [status |-> "none", text_buffer |-> <<>>, sentence_buffer |-> <<>>,
                        audio_count |-> 0, routing_pending |-> FALSE]]
  /\ queries = [s \in Sessions |-> <<>>]
  /\ ws_app = [s \in Sessions |-> [closed |-> FALSE, sent |-> <<>>]]
  /\ ws_moshi = [s \in Sessions |-> [closed |-> FALSE, dropped |-> FALSE, frames |-> 0]]
  /\ units = [s \in Sessions |-> <<>>]
  /\ now = StartTime
  /\ inputs = 0

Init ==
  /\ ProxyInit
  /\ orchestrator = [current_mode |-> "hybrid", responses |-> <<>>]
  /\ decisions = {}

(***************************************************************************)
(* MoshiMLXProxy.handle_websocket                                          *)
(***************************************************************************)

\* ws_app.prepare, then SmartRouter.check_ollama: the probe's result is stored
\* in the router of the proxy and returned to the handler
check_ollama(s, ok) ==
  /\ handler[s].pc = "accept"
  /\ router' = [router EXCEPT !.ollama_available = ok]
  /\ handler' = [handler EXCEPT ![s].pc = "ws_connect", ![s].ollama_available = ok]
  /\ UNCHANGED <<standalone, state, app_to_moshi, moshi_to_app, queries, ws_app, ws_moshi,
                 units, now, inputs>>

\* session.ws_connect(moshi_url): on an exception the handler returns, after an
\* error event if the exception is an aiohttp.ClientError
ws_connect(s, outcome) ==
  /\ handler[s].pc = "ws_connect"
  /\ IF outcome = "connected"
       THEN /\ handler' = [handler EXCEPT ![s].pc = "handshake",
                                              ![s].connect = "connected"]
            /\ UNCHANGED ws_app
       ELSE /\ handler' = [handler EXCEPT ![s].pc = "returned", ![s].connect = "failed"]
            /\ ws_app' = [ws_app EXCEPT
                 ![s].closed = TRUE,
                 ![s].sent = IF IsClientError(outcome)
                               THEN Append(@, ErrorEvent("handler")) ELSE @]
  /\ UNCHANGED <<standalone, router, state, app_to_moshi, moshi_to_app, queries, ws_moshi,
                 units, now, inputs>>

\* the handshake message is received (whatever it is), the connected state is
\* sent with the handler's probe result, and both forwarding tasks are created
start_forwarding(s) ==
  /\ handler[s].pc = "handshake"
  /\ ws_app' = [ws_app EXCEPT ![s].sent =
       Append(@, ConnectedEvent(handler[s].ollama_available))]
  /\ app_to_moshi' = [app_to_moshi EXCEPT ![s].status = "running"]
  /\ moshi_to_app' = [moshi_to_app EXCEPT ![s].status = "running"]
  /\ handler' = [handler EXCEPT ![s].pc = "wait"]
  /\ UNCHANGED <<standalone, router, state, queries, ws_moshi, units, now, inputs>>

\* a handler that cancels no task
PendingTasks_None(s) == {}

\* the tasks asyncio.wait reports as pending when the handler resumes
PendingTasks(s) ==
  {t \in {"app_to_moshi", "moshi_to_app"} :
     (IF t = "app_to_moshi" THEN app_to_moshi[s] ELSE moshi_to_app[s]).status = "running"}

\* asyncio.wait(..., FIRST_COMPLETED) returns; every pending task is cancelled
cancel_pending(s) ==
  /\ handler[s].pc = "wait"
  /\ \/ app_to_moshi[s].status \in TaskEnded
     \/ moshi_to_app[s].status \in TaskEnded
  /\ app_to_moshi' = [app_to_moshi EXCEPT ![s].status =
       IF "app_to_moshi" \in PendingTasks(s) THEN "cancelling" ELSE @]
  /\ moshi_to_app' = [moshi_to_app EXCEPT ![s].status =
       IF "moshi_to_app" \in PendingTasks(s) THEN "cancelling" ELSE @]
  /\ handler' = [handler EXCEPT ![s].pc = "await_cancelled"]
  /\ UNCHANGED <<standalone, router, state, queries, ws_app, ws_moshi, units, now, inputs>>

\* a cancelled forwarding task resumes with CancelledError and ends
task_cancelled(s) ==
  /\ \/ app_to_moshi[s].status = "cancelling"
     \/ moshi_to_app[s].status = "cancelling"
  /\ app_to_moshi' = [app_to_moshi EXCEPT ![s].status =
       IF @ = "cancelling" THEN "cancelled" ELSE @]
  /\ moshi_to_app' = [moshi_to_app EXCEPT ![s].status =
       IF @ = "cancelling" THEN "cancelled" ELSE @]
  /\ UNCHANGED <<standalone, router, handler, state, queries, ws_app, ws_moshi, units, now, inputs>>

\* `await task` is over for every cancelled task: the handler returns and the
\* server closes the client socket
handler_return(s) ==
  /\ handler[s].pc = "await_cancelled"
  /\ app_to_moshi[s].status # "cancelling"
  /\ moshi_to_app[s].status # "cancelling"
  /\ handler' = [handler EXCEPT ![s].pc = "returned"]
  /\ ws_app' = [ws_app EXCEPT ![s].closed = TRUE]
  /\ UNCHANGED <<standalone, router, state, app_to_moshi, moshi_to_app, queries, ws_moshi,
                 units, now, inputs>>

(***************************************************************************)
(* The environment of a running session.                                   *)
(***************************************************************************)

\* the client closes its socket while the forwarding tasks run
client_disconnect(s) ==
  /\ handler[s].pc = "wait"
  /\ ~ws_app[s].closed
  /\ ws_app' = [ws_app EXCEPT ![s].closed = TRUE]
  /\ UNCHANGED <<standalone, router, handler, state, app_to_moshi, moshi_to_app, queries,
                 ws_moshi, units, now, inputs>>

\* the connection to the primary backend drops while the forwarding tasks run
moshi_drop(s) ==
  /\ handler[s].pc = "wait"
  /\ ~ws_moshi[s].closed
  /\ ws_moshi' = [ws_moshi EXCEPT ![s].closed = TRUE, ![s].dropped = TRUE]
  /\ UNCHANGED <<standalone, router, handler, state, app_to_moshi, moshi_to_app, queries,
                 ws_app, units, now, inputs>>

(***************************************************************************)
(* MoshiMLXProxy._forward_app_to_moshi                                     *)
(***************************************************************************)

\* sphn.resample(new_data, APP_SAMPLE_RATE, MOSHI_SAMPLE_RATE): the sample count
Resampled(n) == (n * MOSHI_SAMPLE_RATE) \div APP_SAMPLE_RATE

\* a detection that stamps last_user_audio_time on every chunk
vad_update_StampsEveryChunk(st, is_speech, current_time) ==
  IF is_speech
    THEN [st EXCEPT !.user_speaking = TRUE, !.last_user_audio_time = current_time]
  ELSE IF st.user_speaking
          /\ (current_time - st.last_user_audio_time) > VAD_SILENCE_DURATION
    THEN [st EXCEPT !.user_speaking = FALSE, !.last_user_audio_time = current_time]
  ELSE [st EXCEPT !.last_user_audio_time = current_time]

\* a detection without hysteresis: the first silent chunk ends the speech
vad_update_NoHysteresis(st, is_speech, current_time) ==
  IF is_speech
    THEN [st EXCEPT !.user_speaking = TRUE, !.last_user_audio_time = current_time]
    ELSE [st EXCEPT !.user_speaking = FALSE]

\* a detection that also silences the assistant when the user speaks
vad_update_BargeIn(st, is_speech, current_time) ==
  IF is_speech
    THEN [st EXCEPT !.user_speaking = TRUE, !.last_user_audio_time = current_time,
                    !.assistant_speaking = FALSE]
  ELSE IF st.user_speaking
          /\ (current_time - st.last_user_audio_time) > VAD_SILENCE_DURATION
    THEN [st EXCEPT !.user_speaking = FALSE]
  ELSE st

\* the voice activity detection of one chunk: the new ConversationState
vad_update(st, is_speech, current_time) ==
  IF is_speech
    THEN [st EXCEPT !.user_speaking = TRUE, !.last_user_audio_time = current_time]
  ELSE IF st.user_speaking
          /\ (current_time - st.last_user_audio_time) > VAD_SILENCE_DURATION
    THEN [st EXCEPT !.user_speaking = FALSE]
  ELSE st

\* the throttle of the state update: is the update block entered
state_update_due(is_speech, last_vad_state, current_time, last_state_update) ==
  is_speech # last_vad_state \/ (current_time - last_state_update) > 5

\* An array of samples is a sequence of runs [from, to]: the samples of the
\* resampled stream numbered from..to, in order.

\* len(a)
RECURSIVE SampleCount(_)
SampleCount(a) ==
  IF a = <<>> THEN 0 ELSE (Head(a).to - Head(a).from + 1) + SampleCount(Tail(a))

\* np.concatenate([a, b]); two runs that continue one another are one run
Concatenate(a, b) ==
  IF a = <<>> THEN b
  ELSE IF b = <<>> THEN a
  ELSE IF a[Len(a)].to + 1 = b[1].from
    THEN SubSeq(a, 1, Len(a) - 1) \o <<[from |-> a[Len(a)].from, to |-> b[1].to]>>
           \o Tail(b)
  ELSE a \o b

\* a[:n]
RECURSIVE Take(_, _)
Take(a, n) ==
  IF n <= 0 \/ a = <<>> THEN <<>>
  ELSE LET size == Head(a).to - Head(a).from + 1
       IN  IF size <= n
             THEN Concatenate(<<Head(a)>>, Take(Tail(a), n - size))
             ELSE <<[from |-> Head(a).from, to |-> Head(a).from + n - 1]>>

\* a[n:]
RECURSIVE Drop(_, _)
Drop(a, n) ==
  IF n <= 0 \/ a = <<>> THEN a
  ELSE LET size == Head(a).to - Head(a).from + 1
       IN  IF size <= n
             THEN Drop(Tail(a), n - size)
             ELSE <<[from |-> Head(a).from + n, to |-> Head(a).to]>> \o Tail(a)

\* the array sphn.resample returns for a chunk: the next n samples of the
\* resampled stream, after the `received` ones before it
NewSamples(received, n) ==
  IF n = 0 THEN <<>> ELSE <<[from |-> received + 1, to |-> received + n]>>

\* a loop that hands the encoder all it has once a frame's worth is there
FramesOf_Unsliced(audio_buffer) ==
  IF SampleCount(audio_buffer) >= MOSHI_FRAME_SIZE THEN <<audio_buffer>> ELSE <<>>

\* the chunks the `while len(audio_buffer) >= MOSHI_FRAME_SIZE` loop hands to
\* opus_writer.append_pcm, in order
RECURSIVE FramesOf(_)
FramesOf(audio_buffer) ==
  IF SampleCount(audio_buffer) >= MOSHI_FRAME_SIZE
    THEN <<Take(audio_buffer, MOSHI_FRAME_SIZE)>>
           \o FramesOf(Drop(audio_buffer, MOSHI_FRAME_SIZE))
    ELSE <<>>

\* a loop that leaves the buffer empty
AfterFrames_Emptied(audio_buffer) == <<>>

\* audio_buffer when that loop ends
RECURSIVE AfterFrames(_)
AfterFrames(audio_buffer) ==
  IF SampleCount(audio_buffer) >= MOSHI_FRAME_SIZE
    THEN AfterFrames(Drop(audio_buffer, MOSHI_FRAME_SIZE))
    ELSE audio_buffer

\* a BINARY message of the client: detection, state update, resampling and
\* the frames of MOSHI_FRAME_SIZE handed to the encoder; `encoded` of them
\* come back non-empty and are sent to the backend.  `received` (the number
\* of resampled samples so far) and `encoder` (the chunks handed to
\* opus_writer.append_pcm) are history fields.
app_binary(s, rms, samples, encoded) ==
  LET is_speech == rms > VAD_THRESHOLD
      current_time == now
      st == vad_update(state[s], is_speech, current_time)
      due == state_update_due(is_speech, app_to_moshi[s].last_vad_state,
                              current_time, app_to_moshi[s].last_state_update)
      resampled == NewSamples(app_to_moshi[s].received, Resampled(samples))
      buffered == Concatenate(app_to_moshi[s].audio_buffer, resampled)
      frames == FramesOf(buffered)
  IN  /\ app_to_moshi[s].status = "running"
      /\ ~ws_app[s].closed
      /\ inputs < MaxInputs
      /\ encoded \in 0..Len(frames)
      /\ inputs' = inputs + 1
      /\ state' = [state EXCEPT ![s] = st]
      /\ ws_app' = [ws_app EXCEPT ![s].sent =
           IF due /\ st.user_speaking /\ ~st.assistant_speaking
             THEN Append(@, StateEvent("app_to_moshi", "user_speaking", ""))
             ELSE @]
      /\ IF encoded > 0 /\ ws_moshi[s].closed
           THEN \* ws_moshi.send_bytes raises: the loop logs and re-raises
                /\ app_to_moshi' = [app_to_moshi EXCEPT ![s].status = "raised"]
                /\ UNCHANGED ws_moshi
           ELSE /\ app_to_moshi' = [app_to_moshi EXCEPT
                     ![s].audio_buffer = AfterFrames(buffered),
                     ![s].received = @ + SampleCount(resampled),
                     ![s].encoder = @ \o frames,
                     ![s].last_vad_state = IF due THEN is_speech ELSE @,
                     ![s].last_state_update = IF due THEN current_time ELSE @]
                /\ ws_moshi' = [ws_moshi EXCEPT ![s].frames = @ + encoded]
      /\ UNCHANGED <<standalone, router, handler, moshi_to_app, queries, units, now>>

\* a TEXT message of the client: an interrupt request is logged, nothing else
app_text(s) ==
  /\ app_to_moshi[s].status = "running"
  /\ ~ws_app[s].closed
  /\ inputs < MaxInputs
  /\ inputs' = inputs + 1
  /\ UNCHANGED <<standalone, router, handler, state, app_to_moshi, moshi_to_app, queries,
                 ws_app, ws_moshi, units, now>>

\* CLOSE or ERROR on the client socket: the loop ends and the task is done
app_closed(s) ==
  /\ app_to_moshi[s].status = "running"
  /\ ws_app[s].closed
  /\ app_to_moshi' = [app_to_moshi EXCEPT ![s].status = "done"]
  /\ UNCHANGED <<standalone, router, handler, state, moshi_to_app, queries, ws_app, ws_moshi,
                 units, now, inputs>>

(***************************************************************************)
(* MoshiMLXProxy._forward_moshi_to_app                                     *)
(***************************************************************************)

\* a relay that awaits the dispatched query before it reads the next frame
MoshiFrameReady_AwaitingQuery(s) ==
  /\ moshi_to_app[s].status = "running"
  /\ ~ws_moshi[s].closed
  /\ \A i \in DOMAIN queries[s] : queries[s][i].pc \in {"done", "failed"}

\* `async for msg in ws_moshi` yields the next frame: the task is running its
\* loop and the backend socket is open
MoshiFrameReady(s) ==
  /\ moshi_to_app[s].status = "running"
  /\ ~ws_moshi[s].closed

\* an AUDIO frame (kind 1): payload is "empty", "pcm" (decodes to samples),
\* "nopcm" (decodes to no sample yet) or "undecodable" (the decoder raises)
moshi_audio(s, payload) ==
  LET m == moshi_to_app[s]
      audio_count == m.audio_count + 1
      current_time == now
      first == audio_count = 1
      first_fails == first /\ ws_app[s].closed
      decode_fails == payload = "undecodable" \/ (payload = "pcm" /\ ws_app[s].closed)
      st1 == IF first THEN [state[s] EXCEPT !.assistant_speaking = TRUE] ELSE state[s]
      st2 == [st1 EXCEPT !.last_assistant_audio_time = current_time]
      st3 == IF audio_count > 10 /\ (current_time - st2.last_assistant_audio_time) > 3
               THEN [st2 EXCEPT !.assistant_speaking = FALSE] ELSE st2
      sent1 == IF first
                 THEN Append(ws_app[s].sent,
                             StateEvent("moshi_to_app", "assistant_speaking", ""))
                 ELSE ws_app[s].sent
  IN  /\ MoshiFrameReady(s)
      /\ inputs < MaxInputs
      /\ inputs' = inputs + 1
      /\ IF first_fails
           THEN /\ state' = [state EXCEPT ![s] = st1]
                /\ moshi_to_app' = [moshi_to_app EXCEPT ![s].status = "raised"]
                /\ UNCHANGED ws_app
         ELSE IF decode_fails
           THEN /\ state' = [state EXCEPT ![s] = st2]
                /\ moshi_to_app' = [moshi_to_app EXCEPT ![s].status = "raised"]
                /\ ws_app' = [ws_app EXCEPT ![s].sent = sent1]
         ELSE /\ state' = [state EXCEPT ![s] = st3]
              /\ moshi_to_app' = [moshi_to_app EXCEPT ![s].audio_count = audio_count]
              /\ ws_app' = [ws_app EXCEPT ![s].sent =
                   IF payload = "pcm" THEN Append(sent1, AudioFrame("moshi_to_app"))
                                      ELSE sent1]
      /\ UNCHANGED <<standalone, router, handler, app_to_moshi, queries, ws_moshi, units, now>>

\* a flush that leaves the buffer as it is
BufferAfterFlush_Kept(buffer) == buffer

\* text_buffer = "" and sentence_buffer = "" after a flush
BufferAfterFlush(buffer) == <<>>

\* a flush that sends the final event before the token's own event
TextEvents_FinalFirst(complete, partial, final) ==
  IF complete THEN <<final, partial>> ELSE <<partial>>

\* the events a forwarded text token sends, in order
TextEvents(complete, partial, final) ==
  IF complete THEN <<partial, final>> ELSE <<partial>>

\* `if text and text != '\x00'`
IsForwardedText(text) == text # <<>> /\ text # <<NUL>>

\* a dispatcher that routes whatever the classification
ShouldRoute_AnyComplexity(s, complete_sentence) ==
  /\ router.ollama_available
  /\ ~moshi_to_app[s].routing_pending

\* a dispatcher that does not look at routing_pending
ShouldRoute_IgnoringPending(s, complete_sentence) ==
  /\ router.ollama_available
  /\ classify_fast(complete_sentence).complexity = COMPLEX

\* the routing decision of a complete sentence
ShouldRoute(s, complete_sentence) ==
  /\ router.ollama_available
  /\ ~moshi_to_app[s].routing_pending
  /\ classify_fast(complete_sentence).complexity = COMPLEX

\* a launch that leaves routing_pending as it was
PendingAfterDecision_NotSet(route, routing_pending) == routing_pending

\* routing_pending after the routing decision of a complete sentence
PendingAfterDecision(route, routing_pending) == IF route THEN TRUE ELSE routing_pending

\* asyncio.create_task(self._handle_ollama_query(ws_app, complete_sentence, state))
NewQuery(s, complete_sentence) ==
  [pc |-> "start", query |-> complete_sentence, full_response |-> <<>>,
   unit |-> Len(units[s]) + 1]

\* a TEXT frame (kind 2)
moshi_text(s, text) ==
  LET m == moshi_to_app[s]
      text_buffer == m.text_buffer \o text
      sentence_buffer == m.sentence_buffer \o text
      complete == endswith(rstrip(text), {".", "?", "!", "\n"})
      complete_sentence == strip(sentence_buffer)
      route == ShouldRoute(s, complete_sentence)
      partial == ResponseEvent("moshi_to_app", text, TRUE, "moshi")
      final == ResponseEvent("moshi_to_app", strip(text_buffer), FALSE, "moshi")
  IN  /\ MoshiFrameReady(s)
      /\ inputs < MaxInputs
      /\ inputs' = inputs + 1
      /\ IF ~IsForwardedText(text)
           THEN UNCHANGED <<moshi_to_app, queries, ws_app, units>>
         ELSE IF ws_app[s].closed
           THEN \* ws_app.send_json raises: the loop logs and re-raises
                /\ moshi_to_app' = [moshi_to_app EXCEPT ![s].status = "raised"]
                /\ UNCHANGED <<queries, ws_app, units>>
         ELSE IF ~complete
           THEN /\ moshi_to_app' = [moshi_to_app EXCEPT
                     ![s].text_buffer = text_buffer,
                     ![s].sentence_buffer = sentence_buffer]
                /\ ws_app' = [ws_app EXCEPT ![s].sent =
                     @ \o TextEvents(complete, partial, final)]
                /\ UNCHANGED <<queries, units>>
         ELSE /\ moshi_to_app' = [moshi_to_app EXCEPT
                   ![s].text_buffer = BufferAfterFlush(text_buffer),
                   ![s].sentence_buffer = BufferAfterFlush(sentence_buffer),
                   ![s].routing_pending = PendingAfterDecision(route, @)]
              /\ queries' = [queries EXCEPT ![s] =
                   IF route THEN Append(@, NewQuery(s, complete_sentence)) ELSE @]
              /\ ws_app' = [ws_app EXCEPT ![s].sent =
                   @ \o TextEvents(complete, partial, final)]
              /\ units' = [units EXCEPT ![s] =
                   Append(@, [text |-> complete_sentence,
                              routing_pending |-> m.routing_pending])]
      /\ UNCHANGED <<standalone, router, handler, state, app_to_moshi, ws_moshi, now>>

\* an empty BINARY message, a handshake frame (kind 0), a frame of another
\* kind, or a message that is not BINARY: nothing is done
moshi_other(s) ==
  /\ MoshiFrameReady(s)
  /\ inputs < MaxInputs
  /\ inputs' = inputs + 1
  /\ UNCHANGED <<standalone, router, handler, state, app_to_moshi, moshi_to_app, queries,
                 ws_app, ws_moshi, units, now>>

\* CLOSE or ERROR on the backend socket: the loop breaks and the task is done
moshi_closed(s) ==
  /\ moshi_to_app[s].status = "running"
  /\ ws_moshi[s].closed
  /\ moshi_to_app' = [moshi_to_app EXCEPT ![s].status = "done"]
  /\ UNCHANGED <<standalone, router, handler, state, app_to_moshi, queries, ws_app, ws_moshi,
                 units, now, inputs>>

(***************************************************************************)
(* MoshiMLXProxy._handle_ollama_query: the i-th query task of session s.   *)
(* pc: start, post, stream, then done (the coroutine returned) or failed   *)
(* (an exception left the coroutine).                                      *)
(***************************************************************************)
InFlight(q) == q.pc \in {"start", "post", "stream"}

\* the thinking state is sent, outside the try block
query_thinking(s, i) ==
  /\ i \in DOMAIN queries[s]
  /\ queries[s][i].pc = "start"
  /\ IF ws_app[s].closed
       THEN /\ queries' = [queries EXCEPT ![s][i].pc = "failed"]
            /\ UNCHANGED ws_app
       ELSE /\ queries' = [queries EXCEPT ![s][i].pc = "post"]
            /\ ws_app' = [ws_app EXCEPT ![s].sent =
                 Append(@, StateEvent("query", "thinking", "ollama"))]
  /\ UNCHANGED <<standalone, router, handler, state, app_to_moshi, moshi_to_app, ws_moshi,
                 units, now, inputs>>

\* session.post answers (with any status): the stream of lines is read
query_post(s, i) ==
  /\ i \in DOMAIN queries[s]
  /\ queries[s][i].pc = "post"
  /\ queries' = [queries EXCEPT ![s][i].pc = "stream"]
  /\ UNCHANGED <<standalone, router, handler, state, app_to_moshi, moshi_to_app, ws_app,
                 ws_moshi, units, now, inputs>>

\* `except Exception`: an error event is sent, then current_query_routed is
\* cleared; if the send raises, the exception leaves the coroutine
query_except(s, i) ==
  IF ws_app[s].closed
    THEN /\ queries' = [queries EXCEPT ![s][i].pc = "failed"]
         /\ UNCHANGED <<ws_app, state>>
    ELSE /\ queries' = [queries EXCEPT ![s][i].pc = "done"]
         /\ ws_app' = [ws_app EXCEPT ![s].sent = Append(@, ErrorEvent("query"))]
         /\ state' = [state EXCEPT ![s].current_query_routed = FALSE]

\* the request or the stream raises: connection refused or reset, timeout
query_error(s, i) ==
  /\ i \in DOMAIN queries[s]
  /\ queries[s][i].pc \in {"post", "stream"}
  /\ query_except(s, i)
  /\ UNCHANGED <<standalone, router, handler, app_to_moshi, moshi_to_app, ws_moshi,
                 units, now, inputs>>

\* a line of the stream that carries a token
query_token(s, i, token) ==
  /\ i \in DOMAIN queries[s]
  /\ queries[s][i].pc = "stream"
  /\ inputs < MaxInputs
  /\ inputs' = inputs + 1
  /\ IF ws_app[s].closed
       THEN query_except(s, i)
       ELSE /\ queries' = [queries EXCEPT ![s][i].full_response = @ \o token]
            /\ ws_app' = [ws_app EXCEPT ![s].sent =
                 Append(@, ResponseEvent("query", token, TRUE, "ollama"))]
            /\ UNCHANGED state
  /\ UNCHANGED <<standalone, router, handler, app_to_moshi, moshi_to_app, ws_moshi, units, now>>

\* a line without a token that is not the last: an empty line, a line that is
\* not JSON, a JSON object with no "response" (the body of a non-success reply)
query_skip(s, i) ==
  /\ i \in DOMAIN queries[s]
  /\ queries[s][i].pc = "stream"
  /\ inputs < MaxInputs
  /\ inputs' = inputs + 1
  /\ UNCHANGED <<standalone, router, handler, state, app_to_moshi, moshi_to_app, queries,
                 ws_app, ws_moshi, units, now>>

\* the line with "done", or the end of the stream: the full response is sent
\* if it is not empty, and current_query_routed is cleared
query_end(s, i) ==
  /\ i \in DOMAIN queries[s]
  /\ queries[s][i].pc = "stream"
  /\ IF queries[s][i].full_response = <<>>
       THEN /\ queries' = [queries EXCEPT ![s][i].pc = "done"]
            /\ state' = [state EXCEPT ![s].current_query_routed = FALSE]
            /\ UNCHANGED ws_app
     ELSE IF ws_app[s].closed
       THEN query_except(s, i)
     ELSE /\ queries' = [queries EXCEPT ![s][i].pc = "done"]
          /\ state' = [state EXCEPT ![s].current_query_routed = FALSE]
          /\ ws_app' = [ws_app EXCEPT ![s].sent =
               Append(@, ResponseEvent("query", queries[s][i].full_response,
                                       FALSE, "ollama"))]
  /\ UNCHANGED <<standalone, router, handler, app_to_moshi, moshi_to_app, ws_moshi,
                 units, now, inputs>>

(***************************************************************************)
(* The specification: the server with its sessions.                        *)
(***************************************************************************)
Next ==
  \/ \E s \in Sessions : \E ok \in BOOLEAN : check_ollama(s, ok)
  \/ \E s \in Served :
    \/ \E outcome \in ConnectOutcomes : ws_connect(s, outcome)
    \/ start_forwarding(s)
    \/ cancel_pending(s)
    \/ task_cancelled(s)
    \/ handler_return(s)
    \/ client_disconnect(s)
    \/ moshi_drop(s)
    \/ \E rms \in RmsLevels : \E samples \in ChunkSamples : \E encoded \in 0..2 :
         app_binary(s, rms, samples, encoded)
    \/ app_text(s)
    \/ app_closed(s)
    \/ \E payload \in {"empty", "pcm", "nopcm", "undecodable"} : moshi_audio(s, payload)
    \/ \E text \in Tokens : moshi_text(s, text)
    \/ moshi_other(s)
    \/ moshi_closed(s)
    \/ \E i \in 1..MaxInputs : query_thinking(s, i)
    \/ \E i \in 1..MaxInputs : query_post(s, i)
    \/ \E i \in 1..MaxInputs : query_error(s, i)
    \/ \E i \in 1..MaxInputs : \E token \in OllamaTokens : query_token(s, i, token)
    \/ \E i \in 1..MaxInputs : query_skip(s, i)
    \/ \E i \in 1..MaxInputs : query_end(s, i)

Spec == Init /\ [][Next]_vars

(***************************************************************************)
(* The relay specification: one session's backend-to-client loop and its   *)
(* queries, over the larger set of text payloads.                          *)
(***************************************************************************)
RelayNext ==
  \E s \in Served :
    \/ \E ok \in BOOLEAN : check_ollama(s, ok)
    \/ ws_connect(s, "connected")
    \/ start_forwarding(s)
    \/ \E payload \in {"empty", "pcm", "nopcm", "undecodable"} : moshi_audio(s, payload)
    \/ \E text \in RelayTokens : moshi_text(s, text)
    \/ moshi_other(s)
    \/ \E i \in 1..MaxInputs : query_thinking(s, i)
    \/ \E i \in 1..MaxInputs : query_post(s, i)
    \/ \E i \in 1..MaxInputs : query_error(s, i)
    \/ \E i \in 1..MaxInputs : \E token \in OllamaTokens : query_token(s, i, token)
    \/ \E i \in 1..MaxInputs : query_skip(s, i)
    \/ \E i \in 1..MaxInputs : query_end(s, i)

RelaySpec == Init /\ [][RelayNext]_vars

(***************************************************************************)
(* The timed specification: one session's audio in both directions while   *)
(* the clock read by time.time() advances.                                 *)
(***************************************************************************)

\* a tenth of a second passes
tick ==
  /\ now < StartTime + MaxTicks
  /\ now' = now + 1
  /\ UNCHANGED <<standalone, router, handler, state, app_to_moshi, moshi_to_app, queries,
                 ws_app, ws_moshi, units, inputs>>

TimedNext ==
  \/ tick
  \/ \E s \in Served :
    \/ \E ok \in BOOLEAN : check_ollama(s, ok)
    \/ ws_connect(s, "connected")
    \/ start_forwarding(s)
    \/ \E rms \in RmsLevels : \E samples \in ChunkSamples : \E encoded \in 0..2 :
         app_binary(s, rms, samples, encoded)
    \/ \E payload \in {"pcm", "nopcm"} : moshi_audio(s, payload)

TimedSpec == Init /\ [][TimedNext]_vars

(***************************************************************************)
(* jarvis_orchestrator.py: the routing server and its two query endpoints. *)
(***************************************************************************)

\* the keys of config['modes']
Modes == {"full_duplex", "hybrid", "legacy"}

\* the texts of the requests
OrchTexts == {TokHi, TokFix}

\* what analyze_query_complexity can return ("moderate" also on an error)
Complexities == {"simple", "moderate", "complex"}

\* route_query
route_query(text, complexity) ==
  IF orchestrator.current_mode = "full_duplex" THEN "personaplex"
  ELSE IF orchestrator.current_mode = "hybrid"
    THEN (IF complexity = "simple" THEN "personaplex" ELSE "ollama")
  ELSE "ollama"

\* the reply of /query and /text_query once the text is known: the backend
\* chosen by route_query is asked; when PersonaPlex raises, Ollama is asked
\* instead; when Ollama raises, the request fails with status 500.
\* `mode` and `answered_by` are history fields.
Answer(endpoint, text, complexity, personaplex_ok, ollama_ok) ==
  LET backend == route_query(text, complexity)
      answered_by == IF backend = "personaplex" /\ personaplex_ok THEN "personaplex"
                     ELSE IF ollama_ok THEN "ollama"
                     ELSE "none"
      routed_to == IF backend = "personaplex" /\ ~personaplex_ok
                     THEN "ollama_fallback" ELSE backend
  IN  [endpoint |-> endpoint,
       status |-> IF answered_by = "none" THEN 500 ELSE 200,
       transcription |-> IF answered_by = "none" THEN <<>> ELSE text,
       routed_to |-> IF answered_by = "none" THEN "" ELSE routed_to,
       complexity |-> complexity,
       mode |-> orchestrator.current_mode,
       answered_by |-> answered_by]

\* a reply with an error and no answer
Rejected(endpoint) ==
  [endpoint |-> endpoint, status |-> 400, transcription |-> <<>>, routed_to |-> "",
   complexity |-> "", mode |-> orchestrator.current_mode, answered_by |-> "none"]

\* POST /mode: a mode of config['modes'] becomes the current mode, any other
\* value is refused
mode(new_mode) ==
  /\ orchestrator' = [orchestrator EXCEPT !.current_mode =
                        IF new_mode \in Modes THEN new_mode ELSE @]
  /\ orchestrator'.current_mode # orchestrator.current_mode
  /\ UNCHANGED <<router, handler, state, app_to_moshi, moshi_to_app, queries,
                 ws_app, ws_moshi, units, now, inputs, decisions>>

\* POST /text_query: a body without 'text' is refused
text_query(has_text, text, complexity, personaplex_ok, ollama_ok) ==
  /\ inputs < MaxInputs
  /\ inputs' = inputs + 1
  /\ orchestrator' = [orchestrator EXCEPT !.responses = Append(@,
       IF has_text
         THEN Answer("/text_query", text, complexity, personaplex_ok, ollama_ok)
         ELSE Rejected("/text_query"))]
  /\ UNCHANGED <<router, handler, state, app_to_moshi, moshi_to_app, queries,
                 ws_app, ws_moshi, units, now, decisions>>

\* POST /query: audio that is missing, empty, too small or not WAV, and audio
\* with no speech in it, are refused; otherwise the transcription is answered
query(audio, text, complexity, personaplex_ok, ollama_ok) ==
  /\ inputs < MaxInputs
  /\ inputs' = inputs + 1
  /\ orchestrator' = [orchestrator EXCEPT !.responses = Append(@,
       IF audio = "speech"
         THEN Answer("/query", text, complexity, personaplex_ok, ollama_ok)
         ELSE Rejected("/query"))]
  /\ UNCHANGED <<router, handler, state, app_to_moshi, moshi_to_app, queries,
                 ws_app, ws_moshi, units, now, decisions>>

OrchInit ==
  /\ ProxyInit
  /\ orchestrator \in [current_mode : Modes, responses : {<<>>}]
  /\ decisions = {}

OrchNext ==
  \/ \E new_mode \in Modes \cup {"other"} : mode(new_mode)
  \/ \E has_text \in BOOLEAN : \E text \in OrchTexts : \E complexity \in Complexities :
       \E personaplex_ok \in BOOLEAN : \E ollama_ok \in BOOLEAN :
         text_query(has_text, text, complexity, personaplex_ok, ollama_ok)
  \/ \E audio \in {"invalid", "silent", "speech"} : \E text \in OrchTexts :
       \E complexity \in Complexities :
         \E personaplex_ok \in BOOLEAN : \E ollama_ok \in BOOLEAN :
           query(audio, text, complexity, personaplex_ok, ollama_ok)

OrchSpec == OrchInit /\ [][OrchNext]_vars

(***************************************************************************)
(* smart_router.py: the SmartRouter's classification methods, called one   *)
(* after another on the router whose availability the probe has set.       *)
(***************************************************************************)

\* the queries the methods are called with
QHi2 == <<"H","i">>

QPad == <<" "," ","a"," ">>

QHiFix == <<"H","i",","," ","f","i","x"," ","t","h","e"," ","c","o","d","e">>

QWhy == <<"w","h","y","?">>

QWhyExplain == <<"W","h","y"," ","e","x","p","l","a","i","n">>

QInDetail == <<"I","n"," ","d","e","t","a","i","l">>

QHowNow == <<"H","o","w"," ","n","o","w">>

QShow == <<"S","h","o","w"," ","m","e">>

QHow11 == <<"h","o","w"," ","a"," ","a"," ","a"," ","a"," ","a"," ","a"," ","a"," ","a"," ","a"," ","a">>

QA11 == <<"a"," ","a"," ","a"," ","a"," ","a"," ","a"," ","a"," ","a"," ","a"," ","a"," ","a">>

QA21 == <<"a"," ","a"," ","a"," ","a"," ","a"," ","a"," ","a"," ","a"," ","a"," ","a"," ","a"," ","a"," ","a"," ","a"," ","a"," ","a"," ","a"," ","a"," ","a"," ","a"," ","a">>

QA21Q == <<"a"," ","a"," ","a"," ","a"," ","a"," ","a"," ","a"," ","a"," ","a"," ","a"," ","a"," ","a"," ","a"," ","a"," ","a"," ","a"," ","a"," ","a"," ","a"," ","a"," ","a","?">>

QWhyUpper == <<"W","H","Y","?">>

QHIUpper == <<"H","I","!">>

QHowUpper == <<"H","O","W","?">>

QFixUpper == <<"F","I","X"," ","I","T",".">>

Queries ==
  {QHi2, QPad, QHiFix, QWhy, QWhyExplain, QInDetail, QHowNow, QShow, QHow11,
   QA11, QA21, QA21Q, QWhyUpper, QHIUpper, QHowUpper, QFixUpper, TokHi, TokFix, TokHow}

\* the queries the verification stage and route are called with
VerifyQueries == {TokHi, TokFix, TokHow}

\* what the POST of the verification stage can come to: a reply of status 200
\* whose text has COMPLEX in it, one of status 200 with any other text, a
\* reply of another status, an exception (no connection, timeout, bad JSON)
Replies == {"COMPLEX", "SIMPLE", "status 500", "exception"}

\* is the POST of the verification stage made
LlmAsked(fast_decision) ==
  router.ollama_available /\ fast_decision.complexity = UNCERTAIN

\* a verification stage that takes whatever comes back for an answer
classify_with_llm_AnyReply(q, fast_decision, reply) ==
  IF ~LlmAsked(fast_decision) THEN fast_decision
  ELSE IF reply = "COMPLEX"
    THEN RouterDecision(COMPLEX, 75, <<"LLM classified as complex", 0, <<>>>>, "ollama")
  ELSE RouterDecision(SIMPLE, 75, <<"LLM classified as simple", 0, <<>>>>, "moshi")

\* a verification stage that raises the complexity and keeps the target
classify_with_llm_KeepsTarget(q, fast_decision, reply) ==
  IF ~LlmAsked(fast_decision) THEN fast_decision
  ELSE IF reply = "COMPLEX"
    THEN RouterDecision(COMPLEX, 75, <<"LLM classified as complex", 0, <<>>>>,
                        fast_decision.suggested_model)
  ELSE IF reply = "SIMPLE"
    THEN RouterDecision(SIMPLE, 75, <<"LLM classified as simple", 0, <<>>>>, "moshi")
  ELSE fast_decision

\* SmartRouter.classify_with_llm
classify_with_llm(q, fast_decision, reply) ==
  IF ~router.ollama_available THEN fast_decision
  ELSE IF fast_decision.complexity # UNCERTAIN THEN fast_decision
  ELSE IF reply = "COMPLEX"
    THEN RouterDecision(COMPLEX, 75, <<"LLM classified as complex", 0, <<>>>>, "ollama")
  ELSE IF reply = "SIMPLE"
    THEN RouterDecision(SIMPLE, 75, <<"LLM classified as simple", 0, <<>>>>, "moshi")
  ELSE fast_decision

\* does route call the verification stage
Verifies(use_llm_verify, decision) ==
  use_llm_verify /\ decision.complexity = UNCERTAIN

\* SmartRouter.route
route(q, use_llm_verify, reply) ==
  LET decision == classify_fast(q)
  IN  IF Verifies(use_llm_verify, decision)
        THEN classify_with_llm(q, decision, reply)
        ELSE decision

\* classify_fast of the queries of the model, computed once
FastDecisions == [q \in Queries |-> classify_fast(q)]

\* a call as the history keeps it: the method and its arguments, the
\* availability at the time, whether the verification stage was entered,
\* whether its POST was made and what came back, and the RouterDecision
\* returned
Call(method, q, fast_decision, use_llm_verify, reply, stage, decision) ==
  [method |-> method, query |-> q, fast_decision |-> fast_decision,
   use_llm_verify |-> use_llm_verify,
   available |-> router.ollama_available,
   stage |-> stage, asked |-> stage /\ LlmAsked(fast_decision),
   reply |-> IF stage /\ LlmAsked(fast_decision) THEN reply ELSE "",
   decision |-> decision]

call_classify_fast(q) ==
  /\ inputs < MaxInputs
  /\ inputs' = inputs + 1
  /\ decisions' = decisions \cup
       {Call("classify_fast", q, FastDecisions[q], FALSE, "", FALSE, FastDecisions[q])}
  /\ UNCHANGED <<router, handler, state, app_to_moshi, moshi_to_app, queries,
                 ws_app, ws_moshi, units, now, orchestrator>>

call_classify_with_llm(q, fast_decision, reply) ==
  /\ inputs < MaxInputs
  /\ inputs' = inputs + 1
  /\ decisions' = decisions \cup
       {Call("classify_with_llm", q, fast_decision, FALSE, reply, TRUE,
             classify_with_llm(q, fast_decision, reply))}
  /\ UNCHANGED <<router, handler, state, app_to_moshi, moshi_to_app, queries,
                 ws_app, ws_moshi, units, now, orchestrator>>

call_route(q, use_llm_verify, reply) ==
  /\ inputs < MaxInputs
  /\ inputs' = inputs + 1
  /\ decisions' = decisions \cup
       {Call("route", q, FastDecisions[q], use_llm_verify, reply,
             Verifies(use_llm_verify, FastDecisions[q]),
             route(q, use_llm_verify, reply))}
  /\ UNCHANGED <<router, handler, state, app_to_moshi, moshi_to_app, queries,
                 ws_app, ws_moshi, units, now, orchestrator>>

ClassifyNext ==
  \/ \E s \in Served : \E ok \in BOOLEAN : check_ollama(s, ok)
  \/ \E q \in Queries : call_classify_fast(q)
  \/ \E q \in VerifyQueries : \E reply \in Replies :
       call_classify_with_llm(q, FastDecisions[q], reply)
  \/ \E q \in VerifyQueries : \E use_llm_verify \in BOOLEAN : \E reply \in Replies :
       call_route(q, use_llm_verify, reply)

ClassifySpec == Init /\ [][ClassifyNext]_vars

(***************************************************************************)
(* Properties.                                                             *)
(***************************************************************************)
QueriesInFlight(s) == {i \in DOMAIN queries[s] : InFlight(queries[s][i])}

\* the events the client of session s was sent that satisfy P
SentEvents(s, P(_)) == {k \in DOMAIN ws_app[s].sent : P(ws_app[s].sent[k])}

IsSecondaryEvent(e) == e.state = "thinking" \/ e.source = "ollama"

IsFinalSecondary(e) == e.type = "response" /\ ~e.partial /\ e.source = "ollama"

IsError(e) == e.type = "error"

\* the n-th completed sentence of session s was complete while a query was pending
DroppedComplex(s, n) ==
  /\ units[s][n].routing_pending
  /\ classify_fast(units[s][n].text).complexity = COMPLEX

\* C1: in every reachable state a session has at most one secondary query in
\* flight, and while one is in flight the forwarding loop's routing_pending is
\* true (a query is launched only when it is false, and the launch sets it).
C1_AtMostOneQueryInFlight ==
  \A s \in Sessions :
    /\ Cardinality(QueriesInFlight(s)) <= 1
    /\ QueriesInFlight(s) # {} => moshi_to_app[s].routing_pending

\* C1 witness: a query is in flight while a second Complex sentence completes
C1_Witness ==
  \E s \in Sessions :
    /\ QueriesInFlight(s) # {}
    /\ Len(units[s]) = 2
    /\ DroppedComplex(s, 2)

\* C2: once the query a session launched has finished (stream completion or
\* error), routing_pending is false again, so that the next Complex sentence
\* is routed: routing_pending is true only while a query is in flight.
C2_PendingClearedWhenQueryEnds ==
  \A s \in Sessions :
    (/\ moshi_to_app[s].status = "running"
     /\ \E i \in DOMAIN queries[s] : queries[s][i].pc = "done"
     /\ QueriesInFlight(s) = {})
      => ~moshi_to_app[s].routing_pending

\* C3: a Complex sentence that completes while routing_pending is true is
\* dropped: no query carrying its text is launched for it or after it.
C3_DroppedUnitNeverRouted ==
  \A s \in Sessions : \A n \in DOMAIN units[s] :
    DroppedComplex(s, n) =>
      ~ \E i \in DOMAIN queries[s] :
          queries[s][i].unit >= n /\ queries[s][i].query = units[s][n].text

\* C3 witness: a Complex sentence was dropped and the query that was in
\* flight at that moment has ended
C3_Witness ==
  \E s \in Sessions : \E n \in DOMAIN units[s] :
    /\ DroppedComplex(s, n)
    /\ queries[s] # <<>>
    /\ QueriesInFlight(s) = {}
    /\ moshi_to_app[s].status = "running"

\* C4: every query that was launched and has run to its end has sent the
\* client a final response (partial false, source ollama) or an error event.
C4_QueryAnsweredOrError ==
  \A s \in Sessions : \A i \in DOMAIN queries[s] :
    queries[s][i].pc = "done" =>
      SentEvents(s, LAMBDA e : e.by = "query" /\ (IsFinalSecondary(e) \/ IsError(e))) # {}

\* C5: when the session handler has returned, no query task of the session
\* is still running (it was cancelled), so none can send after teardown.
C5_NoQueryRunsAfterTeardown ==
  \A s \in Sessions :
    handler[s].pc = "returned" => QueriesInFlight(s) = {}

\* C6: a session whose probe failed launches no query and its client gets no
\* thinking event and no event of source ollama, whatever other sessions do.
C6_ProbeFailedNoSecondary ==
  \A s \in Sessions :
    (handler[s].pc # "accept" /\ ~handler[s].ollama_available) =>
      /\ queries[s] = <<>>
      /\ SentEvents(s, IsSecondaryEvent) = {}

\* C7: no state a session reads for a dispatch decision is written by another
\* session: while a session forwards, a probe of another session leaves the
\* availability flag its dispatcher reads unchanged.
C7_NoSharedMutableState ==
  [][\A s \in Sessions :
       (\E ok \in BOOLEAN : check_ollama(s, ok)) =>
         \A t \in Sessions \ {s} :
           handler[t].pc = "wait" => router' = router]_vars

\* C8: when the backend connection dropped mid-session, the client has been
\* sent exactly one error event by the end of the session, and nothing after it.
C8_OneErrorAfterBackendDrop ==
  \A s \in Sessions :
    (ws_moshi[s].dropped /\ handler[s].pc = "returned") =>
      /\ Cardinality(SentEvents(s, IsError)) = 1
      /\ IsError(ws_app[s].sent[Len(ws_app[s].sent)])

\* C9: when the handler has returned after starting the forwarding loops, both
\* forwarding tasks have ended: the one that ended first, and its sibling,
\* which was cancelled and awaited.
C9_BothTasksEndedAtReturn ==
  \A s \in Sessions :
    (handler[s].pc = "returned" /\ handler[s].connect = "connected") =>
      /\ app_to_moshi[s].status \in TaskEnded
      /\ moshi_to_app[s].status \in TaskEnded

\* C9 witness: a loop ended with an exception, its sibling was cancelled, and
\* the handler has returned
C9_Witness ==
  \E s \in Sessions :
    /\ handler[s].pc = "returned"
    /\ moshi_to_app[s].status = "raised"
    /\ app_to_moshi[s].status = "cancelled"

\* C10: when the backend connection could not be established, the client is
\* sent an error event, no forwarding loop is started and no connected state
\* is sent, whatever the failure.
C10_ConnectFailureReported ==
  \A s \in Sessions :
    handler[s].connect = "failed" =>
      /\ SentEvents(s, IsError) # {}
      /\ SentEvents(s, LAMBDA e : e.state = "connected") = {}
      /\ app_to_moshi[s].status = "none"
      /\ moshi_to_app[s].status = "none"

\* a step of a query task of session s
QueryStep(s) ==
  \E i \in 1..MaxInputs :
    \/ query_thinking(s, i)
    \/ query_post(s, i)
    \/ query_error(s, i)
    \/ \E token \in OllamaTokens : query_token(s, i, token)
    \/ query_skip(s, i)
    \/ query_end(s, i)

\* C11: a secondary query never blocks or interrupts the primary relay: in a
\* session that has a query (in flight, stalled at any step, or failed), the
\* relay can take the next audio or text frame of the primary backend; a frame
\* it takes is forwarded to the client and leaves the relay running; and no
\* step of a query changes the handler or either forwarding task.
C11_QueryNeverBlocksRelay ==
  /\ [](\A s \in Served :
          (/\ queries[s] # <<>>
           /\ moshi_to_app[s].status = "running"
           /\ ~ws_moshi[s].closed
           /\ inputs < MaxInputs) =>
            /\ ENABLED moshi_audio(s, "pcm")
            /\ ENABLED moshi_text(s, TokHi))
  /\ [][\A s \in Served :
          /\ (queries[s] # <<>> /\ ~ws_app[s].closed /\ moshi_audio(s, "pcm")) =>
               /\ moshi_to_app'[s].status = "running"
               /\ ws_app'[s].sent[Len(ws_app'[s].sent)] = AudioFrame("moshi_to_app")
          /\ (queries[s] # <<>> /\ ~ws_app[s].closed /\ moshi_text(s, TokHi)) =>
               /\ moshi_to_app'[s].status = "running"
               /\ Len(ws_app'[s].sent) = Len(ws_app[s].sent) + 2
               /\ ws_app'[s].sent[Len(ws_app[s].sent) + 1] =
                    ResponseEvent("moshi_to_app", TokHi, TRUE, "moshi")
          /\ QueryStep(s) =>
               /\ handler' = handler
               /\ moshi_to_app' = moshi_to_app
               /\ app_to_moshi' = app_to_moshi
               /\ ws_app'[s].closed = ws_app[s].closed
               /\ ws_moshi' = ws_moshi]_vars

\* C11 witness: a query that sent its thinking event is still in flight and the
\* relay has forwarded a frame of the primary backend after that event
C11_Witness ==
  \E s \in Served :
    /\ QueriesInFlight(s) # {}
    /\ \E j, k \in DOMAIN ws_app[s].sent :
         /\ j < k
         /\ ws_app[s].sent[j].state = "thinking"
         /\ ws_app[s].sent[k].by = "moshi_to_app"

IsPrimaryToken(e) ==
  e.by = "moshi_to_app" /\ e.type = "response" /\ e.partial /\ e.source = "moshi"

IsPrimaryFinal(e) ==
  e.by = "moshi_to_app" /\ e.type = "response" /\ ~e.partial /\ e.source = "moshi"

\* the index of the last primary final event before the k-th event, or 0
PreviousFinal(sent, k) ==
  SetMax({0} \cup {j \in 1..(k - 1) : IsPrimaryFinal(sent[j])})

\* the texts of the primary token events among sent[i..k], concatenated
RECURSIVE TokenTexts(_, _, _)
TokenTexts(sent, i, k) ==
  IF i > k THEN <<>>
  ELSE (IF IsPrimaryToken(sent[i]) THEN sent[i].text ELSE <<>>)
         \o TokenTexts(sent, i + 1, k)

\* the texts of the token events of the sentence that the k-th event closes
SentenceTokens(sent, k) == TokenTexts(sent, PreviousFinal(sent, k) + 1, k - 1)

\* C12: every partial=false event of the primary is preceded, in delivery
\* order, by all the token events of its sentence, and its text is the
\* concatenation of exactly the texts of the token events delivered since the
\* previous partial=false event of the primary.
C12_FinalIsConcatenationOfTokens ==
  \A s \in Served :
    \A k \in DOMAIN ws_app[s].sent :
      IsPrimaryFinal(ws_app[s].sent[k]) =>
        ws_app[s].sent[k].text = SentenceTokens(ws_app[s].sent, k)

\* C12 as amended: every partial=false event of the primary is preceded by
\* all the token events of its sentence, and its text is the concatenation of
\* the texts of the token events delivered since the previous partial=false
\* event of the primary with leading and trailing whitespace removed.
C12_FinalIsStrippedConcatenation ==
  \A s \in Served :
    \A k \in DOMAIN ws_app[s].sent :
      IsPrimaryFinal(ws_app[s].sent[k]) =>
        ws_app[s].sent[k].text = strip(SentenceTokens(ws_app[s].sent, k))

\* C12 witness: a sentence of two tokens, " code" and ". ", was closed by a
\* partial=false event
C12_Witness ==
  \E s \in Served :
    \E k \in DOMAIN ws_app[s].sent :
      /\ IsPrimaryFinal(ws_app[s].sent[k])
      /\ SentenceTokens(ws_app[s].sent, k) = TokCode \o TokDot

\* the number of primary token events in a sequence of events
TokenCount(sent) == Cardinality({k \in DOMAIN sent : IsPrimaryToken(sent[k])})

\* in this step session s handles the text token `text`; when `forwarded`, the
\* client's next event is the token's own partial=true event, ahead of anything
\* the token triggers, and it is the only token event added; otherwise the
\* client is sent nothing
TokenStep(s, text, forwarded) ==
  LET before == ws_app[s].sent
      after == ws_app'[s].sent
  IN  (~ws_app[s].closed /\ moshi_text(s, text)) =>
        IF forwarded
          THEN /\ Len(after) > Len(before)
               /\ SubSeq(after, 1, Len(before)) = before
               /\ after[Len(before) + 1] = ResponseEvent("moshi_to_app", text, TRUE, "moshi")
               /\ TokenCount(after) = TokenCount(before) + 1
          ELSE after = before

\* C13: the partial=true events of the primary are the non-empty text tokens
\* received, in the same order, one event per token, and a token's event is
\* sent before any classification, dispatch or flush the token triggers.
C13_OneEventPerNonEmptyToken ==
  [][\A s \in Served : \A text \in RelayTokens : TokenStep(s, text, text # <<>>)]_vars

\* C13 as amended: the partial=true events of the primary are the text tokens
\* received that are neither empty nor the single NUL character, in the same
\* order, one event per token, and a token's event is sent before any
\* classification, dispatch or flush the token triggers.
C13_OneEventPerForwardedToken ==
  [][\A s \in Served : \A text \in RelayTokens :
       TokenStep(s, text, text # <<>> /\ text # <<NUL>>)]_vars

\* C13 witness: two tokens were forwarded in the order received, and the
\* second, which completed a sentence, has its own event ahead of the flush
C13_Witness ==
  \E s \in Served :
    \E j \in DOMAIN ws_app[s].sent :
      /\ j + 2 \in DOMAIN ws_app[s].sent
      /\ ws_app[s].sent[j] = ResponseEvent("moshi_to_app", TokCode, TRUE, "moshi")
      /\ ws_app[s].sent[j + 1] = ResponseEvent("moshi_to_app", TokHi, TRUE, "moshi")
      /\ IsPrimaryFinal(ws_app[s].sent[j + 2])

\* the token without its trailing blanks (spaces and tabs)
RECURSIVE TrimBlanks(_)
TrimBlanks(text) ==
  IF text # <<>> /\ text[Len(text)] \in {" ", "\t"}
    THEN TrimBlanks(SubSeq(text, 1, Len(text) - 1))
    ELSE text

\* the trailing content of the token is '.', '?', '!' or a newline
EndsSentence(text) ==
  /\ TrimBlanks(text) # <<>>
  /\ TrimBlanks(text)[Len(TrimBlanks(text))] \in {".", "?", "!", "\n"}

\* C14: a forwarded token flushes the text aggregator if and only if its
\* trailing content is '.', '?', '!' or a newline: on a flush a partial=false
\* event is sent and both buffers are empty afterwards; on any other token no
\* partial=false event is sent and both buffers grow by exactly that token.
C14_FlushIffTerminalToken ==
  [][\A s \in Served : \A text \in RelayTokens :
       (IsForwardedText(text) /\ ~ws_app[s].closed /\ moshi_text(s, text)) =>
         LET after == ws_app'[s].sent
         IN  IF EndsSentence(text)
               THEN /\ IsPrimaryFinal(after[Len(after)])
                    /\ Len(after) = Len(ws_app[s].sent) + 2
                    /\ moshi_to_app'[s].text_buffer = <<>>
                    /\ moshi_to_app'[s].sentence_buffer = <<>>
               ELSE /\ Len(after) = Len(ws_app[s].sent) + 1
                    /\ moshi_to_app'[s].text_buffer =
                         moshi_to_app[s].text_buffer \o text
                    /\ moshi_to_app'[s].sentence_buffer =
                         moshi_to_app[s].sentence_buffer \o text]_vars

\* C15: for each completed unit exactly one query is launched, for that unit,
\* if the unit is classified Complex, the secondary is available and
\* routing_pending is false; otherwise (a Simple or Uncertain unit, no
\* secondary, or a query pending) none is launched; and a step that completes
\* no unit launches no query.
C15_OneQueryPerRoutedUnit ==
  [][\A s \in Served :
       LET n == Len(units'[s])
           launched == Len(queries'[s]) - Len(queries[s])
       IN  IF n = Len(units[s]) + 1
             THEN IF /\ classify_fast(units'[s][n].text).complexity = COMPLEX
                     /\ router.ollama_available
                     /\ ~moshi_to_app[s].routing_pending
                    THEN /\ launched = 1
                         /\ queries'[s][Len(queries'[s])].query = units'[s][n].text
                         /\ queries'[s][Len(queries'[s])].unit = n
                    ELSE launched = 0
             ELSE launched = 0]_vars

\* C15 witness: with the secondary available, the Uncertain unit "How?"
\* launched nothing and the Complex unit "Fix it." after it launched one query
C15_Witness ==
  \E s \in Served :
    /\ Len(units[s]) = 2
    /\ classify_fast(units[s][1].text).complexity = UNCERTAIN
    /\ classify_fast(units[s][2].text).complexity = COMPLEX
    /\ Len(queries[s]) = 1
    /\ queries[s][1].unit = 2

\* the events the query task of session s sent, in delivery order
QueryEvents(s) == SelectSeq(ws_app[s].sent, LAMBDA e : e.by = "query")

\* the texts of a sequence of events, concatenated
RECURSIVE ConcatTexts(_)
ConcatTexts(events) ==
  IF events = <<>> THEN <<>> ELSE Head(events).text \o ConcatTexts(Tail(events))

\* events[from..to] are partial=true events of the secondary, one per token
AllSecondaryTokens(events, from, to) ==
  \A k \in from..to :
    /\ events[k].type = "response"
    /\ events[k].partial
    /\ events[k].source = "ollama"
    /\ events[k].text \in OllamaTokens

\* C16: the events of one secondary query reach the client in this order:
\* the thinking state first, then one partial=true event of the secondary per
\* token received, in stream order, then, when the stream has completed, one
\* partial=false event of the secondary whose text is the concatenation of
\* those tokens.
C16_QueryEventOrder ==
  \A s \in Served :
    \A i \in DOMAIN queries[s] :
      LET q == queries[s][i]
          events == QueryEvents(s)
          n == Len(events)
      IN  (Len(queries[s]) = 1 /\ q.pc # "failed") =>
            /\ q.pc = "start" => events = <<>>
            /\ q.pc # "start" =>
                 /\ n >= 1
                 /\ events[1] = StateEvent("query", "thinking", "ollama")
            /\ q.pc \in {"post", "stream"} =>
                 /\ AllSecondaryTokens(events, 2, n)
                 /\ ConcatTexts(SubSeq(events, 2, n)) = q.full_response
            /\ (q.pc = "done" /\ ~IsError(events[n])) =>
                 /\ n >= 2
                 /\ AllSecondaryTokens(events, 2, n - 1)
                 /\ ConcatTexts(SubSeq(events, 2, n - 1)) = q.full_response
                 /\ events[n] = ResponseEvent("query", q.full_response, FALSE, "ollama")

\* in this step the client-to-backend loop of session s handles an audio chunk
ClientChunkStep(s) ==
  \E rms \in RmsLevels : \E samples \in ChunkSamples : \E encoded \in 0..2 :
    app_binary(s, rms, samples, encoded)

\* C17: assistant_speaking is debounced like user_speaking, with the shorter
\* window of 0.3 s: a backend audio frame makes it true (again, if it had
\* returned to false), and it has returned to false once more than the window
\* has passed since the last backend audio frame, so a client chunk handled
\* after that reads it false.
C17_AssistantSpeakingDebounced ==
  [][\A s \in Served :
       /\ (\E payload \in {"pcm", "nopcm"} :
             moshi_audio(s, payload) /\ moshi_to_app'[s].status = "running") =>
            state'[s].assistant_speaking
       /\ (ClientChunkStep(s) /\ (now - state[s].last_assistant_audio_time) > 3) =>
            ~state[s].assistant_speaking]_vars

\* C18: whenever the user's state flips from silence to speaking (a chunk
\* above the threshold is handled while user_speaking is false), a
\* user_speaking state event is sent to the client, at any point of the
\* session, also after the assistant has produced audio.
C18_SpeechOnsetIsReported ==
  [][\A s \in Served :
       (ClientChunkStep(s) /\ ~state[s].user_speaking /\ state'[s].user_speaking) =>
         ws_app'[s].sent =
           Append(ws_app[s].sent, StateEvent("app_to_moshi", "user_speaking", ""))]_vars

\* the state events the client-to-backend loop of session s sent so far
UserStateEvents(s) ==
  SelectSeq(ws_app[s].sent, LAMBDA e : e.by = "app_to_moshi" /\ e.type = "state")

\* C19: the user's state events are throttled: when the client-to-backend
\* loop sends a state event and has sent one before, either the session's
\* speaking/silence state changed or more than 0.5 s have passed since the
\* previous one, whatever the sequence of chunks (also chunks that alternate
\* above and below the threshold).
C19_StateEventsThrottled ==
  [][\A s \in Served :
       (/\ ClientChunkStep(s)
        /\ Len(ws_app'[s].sent) = Len(ws_app[s].sent) + 1
        /\ UserStateEvents(s) # <<>>) =>
         \/ state'[s].user_speaking # state[s].user_speaking
         \/ now - UserStateEvents(s)[Len(UserStateEvents(s))].at > 5]_vars

\* C20: a protocol error on a frame of the primary backend (an unknown frame
\* kind or an empty message, a text payload with nothing decodable in it, an
\* audio payload the decoder rejects) drops only that frame: the client is
\* sent no event for it, the forwarding loop goes on with the next frame and
\* the handler is left where it was.
C20_ProtocolErrorDropsFrame ==
  [][\A s \in Served :
       (/\ ~ws_app[s].closed
        /\ \/ moshi_other(s)
           \/ moshi_text(s, <<>>)
           \/ moshi_audio(s, "undecodable")) =>
         /\ moshi_to_app'[s].status = "running"
         /\ ws_app'[s].sent = ws_app[s].sent
         /\ handler'[s] = handler[s]]_vars

\* C21: in full_duplex mode every query is answered by PersonaPlex only:
\* whatever the complexity and whether or not the PersonaPlex call fails, no
\* request of /query or /text_query routed in that mode is answered by Ollama.
C21_FullDuplexNeverAnsweredByOllama ==
  \A k \in DOMAIN orchestrator.responses :
    orchestrator.responses[k].mode = "full_duplex" =>
      orchestrator.responses[k].answered_by # "ollama"

\* in this step the client-to-backend loop of session s handles a chunk whose
\* root-mean-square amplitude is rms
ChunkStepAt(s, rms) ==
  \E samples \in ChunkSamples : \E encoded \in 0..2 : app_binary(s, rms, samples, encoded)

\* C22: the detection is idempotent under silence: once user_speaking is
\* false, a chunk at or below the threshold, handled at any time, leaves
\* user_speaking false and last_user_audio_time unchanged.
C22_SilenceIsIdempotent ==
  [][\A s \in Served : \A rms \in RmsLevels :
       (~(rms > VAD_THRESHOLD) /\ ~state[s].user_speaking /\ ChunkStepAt(s, rms)) =>
         /\ ~state'[s].user_speaking
         /\ state'[s].last_user_audio_time = state[s].last_user_audio_time]_vars

\* C22 witness: two silent chunks were handled at different times while
\* user_speaking was false
C22_Witness ==
  \E s \in Served :
    /\ inputs = 2
    /\ moshi_to_app[s].audio_count = 0
    /\ ~state[s].user_speaking
    /\ state[s].last_user_audio_time = 0
    /\ app_to_moshi[s].last_state_update > StartTime

\* C23: user_speaking goes from true to false only in a step that handles a
\* chunk at or below the threshold more than VAD_SILENCE_DURATION after
\* last_user_audio_time; such a chunk inside the window leaves user_speaking
\* true; and every chunk above the threshold sets user_speaking and sets
\* last_user_audio_time to the time of the chunk.
C23_HysteresisOfUserSpeaking ==
  [][\A s \in Served :
       /\ (state[s].user_speaking /\ ~state'[s].user_speaking) =>
            /\ \E rms \in RmsLevels : ~(rms > VAD_THRESHOLD) /\ ChunkStepAt(s, rms)
            /\ now - state[s].last_user_audio_time > VAD_SILENCE_DURATION
       /\ \A rms \in RmsLevels :
            ChunkStepAt(s, rms) =>
              IF rms > VAD_THRESHOLD
                THEN /\ state'[s].user_speaking
                     /\ state'[s].last_user_audio_time = now
                ELSE (/\ state[s].user_speaking
                      /\ now - state[s].last_user_audio_time <= VAD_SILENCE_DURATION) =>
                       state'[s].user_speaking]_vars

\* C23 witness: the user spoke, and a silent chunk handled after the window
\* ended the speech
C23_Witness ==
  \E s \in Served :
    /\ ~state[s].user_speaking
    /\ state[s].last_user_audio_time >= StartTime
    /\ now - state[s].last_user_audio_time > VAD_SILENCE_DURATION

\* C24: in the client-to-backend direction input smaller than the backend's
\* frame is buffered, not forwarded: every chunk handed to the encoder has
\* exactly MOSHI_FRAME_SIZE samples, and after each inbound chunk is handled
\* the buffer holds less than one frame of samples.
C24_OnlyWholeFramesEncoded ==
  \A s \in Served :
    /\ \A k \in DOMAIN app_to_moshi[s].encoder :
         SampleCount(app_to_moshi[s].encoder[k]) = MOSHI_FRAME_SIZE
    /\ SampleCount(app_to_moshi[s].audio_buffer) < MOSHI_FRAME_SIZE

\* C24 witness: a chunk of 960 resampled samples, less than a frame, was
\* received: it is in the buffer and nothing was handed to the encoder
C24_Witness ==
  \E s \in Served :
    /\ app_to_moshi[s].received = 960
    /\ app_to_moshi[s].encoder = <<>>
    /\ SampleCount(app_to_moshi[s].audio_buffer) = 960

\* the arrays of a sequence, concatenated
RECURSIVE ConcatenateAll(_)
ConcatenateAll(arrays) ==
  IF arrays = <<>> THEN <<>>
  ELSE Concatenate(Head(arrays), ConcatenateAll(Tail(arrays)))

\* C25: the buffer conserves samples: the resampled samples received so far
\* are, in order and with none lost, duplicated or reordered, the
\* concatenation of the chunks handed to the encoder followed by what the
\* buffer holds.
C25_SamplesConserved ==
  \A s \in Served :
    Concatenate(ConcatenateAll(app_to_moshi[s].encoder), app_to_moshi[s].audio_buffer)
      = NewSamples(0, app_to_moshi[s].received)

\* C25 witness: two chunks were received, one frame was handed to the encoder
\* and the rest of the samples is in the buffer
C25_Witness ==
  \E s \in Served :
    /\ app_to_moshi[s].received = 2880
    /\ app_to_moshi[s].encoder # <<>>
    /\ app_to_moshi[s].audio_buffer # <<>>

\* the four steps as the specification orders them, each with the steps
\* before it excluded: complexity and confidence (in hundredths) of a text
Reference(text) ==
  LET unit == strip(lower(text))
      simple == \E n \in DOMAIN SIMPLE_PATTERNS : Search(SIMPLE_PATTERNS[n], unit)
      complex == \E n \in DOMAIN COMPLEX_PATTERNS : Search(COMPLEX_PATTERNS[n], unit)
      words == WordCount(unit)
      score == SumWeights(MatchedKeywords(unit))
                 + (IF words > 20 THEN 20 ELSE 0)
                 + (IF words > 10 /\ words <= 20 THEN 10 ELSE 0)
                 + (IF endswith(strip(text), {"?"}) THEN 10 ELSE 0)
      scored == Len(unit) >= 3 /\ ~simple /\ ~complex
  IN  CASE Len(unit) < 3 -> [complexity |-> SIMPLE, confidence |-> 90]
        [] Len(unit) >= 3 /\ simple -> [complexity |-> SIMPLE, confidence |-> 85]
        [] Len(unit) >= 3 /\ ~simple /\ complex ->
             [complexity |-> COMPLEX, confidence |-> 80]
        [] scored /\ score >= 50 ->
             [complexity |-> COMPLEX, confidence |-> Min(90, 50 + score)]
        [] scored /\ score >= 25 /\ score < 50 ->
             [complexity |-> UNCERTAIN, confidence |-> 50]
        [] scored /\ score < 25 -> [complexity |-> SIMPLE, confidence |-> 70]

References == [q \in Queries |-> Reference(q)]

FastCalls == {c \in decisions : c.method = "classify_fast"}

\* C26: every call of classify_fast returns the complexity and the
\* confidence of the ordered four-step reference: a stripped length under 3
\* gives Simple/0.9; otherwise a simple pattern gives Simple/0.85, whatever
\* else matches; otherwise a complex pattern gives Complex/0.8; otherwise the
\* keyword score with the length and question-mark bonuses gives Complex with
\* min(0.9, 0.5 + score) from 0.5 up, Uncertain/0.5 from 0.25 up, and
\* Simple/0.7 below.
C26_ClassifyFastIsTheReference ==
  \A c \in FastCalls :
    /\ c.decision.complexity = References[c.query].complexity
    /\ c.decision.confidence = References[c.query].confidence

\* a simple pattern has won over a complex pattern and a keyword, and the
\* length bonus alone has made a query Uncertain
C26_Witness ==
  /\ \E c \in FastCalls : c.query = QHiFix /\ c.decision.confidence = 85
  /\ \E c \in FastCalls : c.query = QHow11 /\ c.decision.complexity = UNCERTAIN

StageCalls == {c \in decisions : c.method \in {"classify_with_llm", "route"}}

\* the verification call came back with status 200 and a body that parses
Succeeded(c) == c.asked /\ c.reply \in {"COMPLEX", "SIMPLE"}

\* C27: the verification stage returns the fast decision itself unless that
\* decision is Uncertain, the secondary backend is marked reachable and the
\* call succeeds (so also on a timeout, an exception and a reply of another
\* status), and route enters the stage only when use_llm_verify is set and
\* the fast decision is Uncertain.
C27_VerificationKeepsFastDecision ==
  \A c \in StageCalls :
    /\ ~(/\ c.fast_decision.complexity = UNCERTAIN
         /\ c.available
         /\ Succeeded(c)) => c.decision = c.fast_decision
    /\ c.asked => c.fast_decision.complexity = UNCERTAIN /\ c.available
    /\ c.method = "route" =>
         /\ c.stage => c.use_llm_verify /\ c.fast_decision.complexity = UNCERTAIN
         /\ ~c.stage => c.decision = c.fast_decision

\* the POST was made and failed, and the fast decision came back; and a route
\* with verification got a COMPLEX reply and returned it
C27_Witness ==
  /\ \E c \in StageCalls :
       /\ c.method = "classify_with_llm" /\ c.asked /\ c.reply = "exception"
       /\ c.decision = c.fast_decision
  /\ \E c \in StageCalls :
       /\ c.method = "route" /\ c.asked /\ c.reply = "COMPLEX"
       /\ c.decision.complexity = COMPLEX

\* C29: every RouterDecision that classify_fast or classify_with_llm (alone
\* or under route) returns targets the secondary backend, "ollama", if and
\* only if its complexity is Complex; Simple and Uncertain decisions target
\* the primary backend, "moshi".
C29_TargetFollowsComplexity ==
  \A c \in decisions :
    /\ c.decision.suggested_model = "ollama" <=> c.decision.complexity = COMPLEX
    /\ c.decision.complexity \in {SIMPLE, UNCERTAIN} =>
         c.decision.suggested_model = "moshi"

\* the score has made a query Complex, and the verification stage has turned
\* an Uncertain decision into a Complex one
C29_Witness ==
  /\ \E c \in FastCalls :
       /\ c.query = QWhyExplain
       /\ c.decision.reason[1] = "High complexity score"
       /\ c.decision.suggested_model = "ollama"
  /\ \E c \in StageCalls :
       /\ c.method = "classify_with_llm"
       /\ c.fast_decision.complexity = UNCERTAIN
       /\ c.decision.reason[1] = "LLM classified as complex"
       /\ c.decision.suggested_model = "ollama"

\* C30: two calls of classify_fast on texts that are the same up to letter
\* case return the same RouterDecision (complexity, confidence, reason and
\* target), whatever was called in between and whatever the availability of
\* the secondary backend was at either call.
C30_ClassifyFastIgnoresCaseAndHistory ==
  \A c \in FastCalls : \A d \in FastCalls :
    lower(c.query) = lower(d.query) => c.decision = d.decision

\* the classifier was called on How? and on HOW?, once with the secondary
\* backend marked unreachable and once with it marked reachable
C30_Witness ==
  \E c \in FastCalls : \E d \in FastCalls :
    /\ c.query = TokHow /\ d.query = QHowUpper
    /\ c.available # d.available

\* a step of the loop _forward_app_to_moshi of session s
ClientLoopStep(s) == ClientChunkStep(s) \/ app_text(s) \/ app_closed(s)

\* a step of the loop _forward_moshi_to_app of session s
PrimaryLoopStep(s) ==
  \/ \E payload \in {"empty", "pcm", "nopcm", "undecodable"} : moshi_audio(s, payload)
  \/ \E text \in Tokens : moshi_text(s, text)
  \/ moshi_other(s)
  \/ moshi_closed(s)

UserFields(s) == <<state[s].user_speaking, state[s].last_user_audio_time>>

AssistantFields(s) ==
  <<state[s].assistant_speaking, state[s].last_assistant_audio_time>>

TextFields(s) ==
  <<moshi_to_app[s].text_buffer, moshi_to_app[s].sentence_buffer,
    state[s].pending_user_text, state[s].pending_assistant_text>>

RoutingFields(s) == <<moshi_to_app[s].routing_pending, state[s].current_query_routed>>

\* C28: the client-to-primary loop is the only writer of user_speaking and
\* last_user_audio_time and leaves the assistant, text and routing fields as
\* they are; the primary-to-client loop is the only writer of
\* assistant_speaking, last_assistant_audio_time and the text buffers and
\* leaves the user fields as they are; no field has a second writer.
C28_OneWriterPerField ==
  [][\A s \in Sessions :
       /\ UserFields(s)' # UserFields(s) => ClientLoopStep(s)
       /\ ClientLoopStep(s) =>
            /\ AssistantFields(s)' = AssistantFields(s)
            /\ TextFields(s)' = TextFields(s)
            /\ RoutingFields(s)' = RoutingFields(s)
       /\ (AssistantFields(s)' # AssistantFields(s) \/ TextFields(s)' # TextFields(s))
            => PrimaryLoopStep(s)
       /\ PrimaryLoopStep(s) => UserFields(s)' = UserFields(s)
       /\ moshi_to_app[s].routing_pending' # moshi_to_app[s].routing_pending
            => PrimaryLoopStep(s)
       /\ state[s].current_query_routed' # state[s].current_query_routed
            => QueryStep(s)]_vars

\* both loops have written their fields: the user and the assistant are
\* speaking at once
C28_Witness ==
  \E s \in Served :
    /\ state[s].user_speaking /\ state[s].last_user_audio_time > 0
    /\ state[s].assistant_speaking /\ state[s].last_assistant_audio_time > 0

====
